---- MODULE Spec2Model ----
(***************************************************************************)
(* Cell-state and constraint-propagation engine of bevy_sudoku.            *)
(*                                                                         *)
(* The board is the 81 cell entities spawned by init_cells.  An input      *)
(* event (NewDigit, NewCandidate, CleanCell) is triggered on the selected  *)
(* cell; its observers run in registration order and the RemoveDigit       *)
(* command an observer queues is applied after all observers of the        *)
(* triggering event have returned.  kick_candidates is an Update system    *)
(* of its own: it runs once per frame and sees the cells changed since its *)
(* previous run.                                                           *)
(***************************************************************************)
EXTENDS Integers, Sequences, FiniteSets, TLC

\* ------------------------------------------------------------------ bounds
\* digits the input layer sends are 0..MaxDigit (0 is the '0' key)
MaxDigit == 2
\* number of cells of ActiveSeq the selection can reach
NumActive == 2
\* number of input events and check-box clicks of one run
MaxSteps == 3

\* ------------------------------------------------------- program constants
Pos == 0..80
Digits == 1..9
NoDigit == 0

\* one puzzle as Sudoku::generate() returns it (0 = open cell), row-major
Puzzle ==
  << 5,3,0, 0,7,0, 0,0,0,
     6,0,0, 1,9,5, 0,0,0,
     0,9,8, 0,0,0, 0,6,0,
     8,0,0, 0,6,0, 0,0,3,
     4,0,0, 8,0,3, 0,0,1,
     7,0,0, 0,2,0, 0,0,6,
     0,6,0, 0,0,0, 2,8,0,
     0,0,0, 4,1,9, 0,0,5,
     0,0,0, 0,8,0, 0,7,9 >>

\* cells the selection visits, in the order the bound NumActive admits them
ActiveSeq == << 2, 3, 12, 11, 40 >>
ActiveCells == { ActiveSeq[i] : i \in 1..NumActive }
InputDigits == 0..MaxDigit

\* --------------------------------------------------------- position index
row(p) == p \div 9
col(p) == p % 9
block(p) == (row(p) \div 3) * 3 + (col(p) \div 3)

SameUnit_no_block(p, q) == row(p) = row(q) \/ col(p) = col(q)

\* the test check_conflict, remove_conflict and kick_candidates all make
SameUnit(p, q) == row(p) = row(q) \/ col(p) = col(q) \/ block(p) = block(q)

\* q is a peer of p
IsPeer(p, q) == q # p /\ SameUnit(p, q)

\* the peers of every position
PeerSets == [p \in Pos |-> { q \in Pos : IsPeer(p, q) }]

Peers(p) == PeerSets[p]

VARIABLES
  cells,          \* Pos -> [fixed, mode, digit, auto_candidates, manual_candidates]
  conflict_count, \* Pos -> set of positions (ConflictCount of the cell's child)
  auto_mode,      \* AutoCandidateMode resource
  selected_cell,  \* the position carrying SelectedCell
  changed,        \* positions whose value changed since kick_candidates last ran
  solver,         \* SudokuManager.solver: the 81-entry grid state it was built from
  crashed,        \* TRUE once a system has panicked
  steps,          \* number of input events and check-box clicks handled
  last,           \* the last input event, check-box click or kick_candidates run
  scen            \* progress of the place / place / clear scenarios

vars == << cells, conflict_count, auto_mode, selected_cell, changed, solver,
           crashed, steps, last, scen >>

\* ------------------------------------------------------------ cell values
\* CellState of the sudoku crate: Digit(d) or Candidates(set)
DigitState(d) == [digit |-> d, cands |-> {}]
CandidatesState(c) == [digit |-> NoDigit, cands |-> c]

current_by_flag(c, flag) ==
  IF c.mode = "Digit" THEN DigitState(c.digit)
  ELSE IF flag THEN CandidatesState(c.auto_candidates)
  ELSE CandidatesState(c.manual_candidates)

\* CellValue::current: the effective value of a cell
current(c, flag) ==
  IF c.mode = "Digit" THEN DigitState(c.digit)
  ELSE IF c.mode = "AutoCandidates" THEN CandidatesState(c.auto_candidates)
  ELSE CandidatesState(c.manual_candidates)

\* CellValue::set with a Candidates state, as the eliminator uses it
set(c, cands, flag) ==
  IF c.mode = "AutoCandidates" THEN [c EXCEPT !.auto_candidates = cands] ELSE c

\* AutoCandidates::insert / ManualCandidates::insert
insert(s, d) == s \cup {d}

\* CellValueBundle::from_cell_state applied to solver.grid_state()[p]
from_cell_state(p) ==
  IF Puzzle[p + 1] # 0
  THEN [fixed |-> TRUE, mode |-> "Digit", digit |-> Puzzle[p + 1],
        auto_candidates |-> {}, manual_candidates |-> {}]
  ELSE [fixed |-> FALSE, mode |-> "AutoCandidates", digit |-> NoDigit,
        auto_candidates |-> Digits \ { Puzzle[q + 1] : q \in Peers(p) },
        manual_candidates |-> {}]

\* check_solver: the grid state handed to StrategySolver::from_grid_state
check_solver(cs, flag) == [p \in Pos |-> current(cs[p], flag)]

check_solver_cells_normalised(cs, flag) ==
  [p \in Pos |-> IF cs[p].mode = "Digit"
                 THEN [cs[p] EXCEPT !.auto_candidates = {}]
                 ELSE cs[p]]

\* the cells as check_solver leaves them: its query asks for &mut CellValue
\* but is only iterated with iter(), which hands out shared references
check_solver_cells(cs, flag) == cs

\* Digit::new as NewDigit::new and NewCandidate::new call it: it panics on
\* a value outside 1..9
digit_new_panics(d) == d \notin Digits

\* ----------------------------------------------------------- the observers
\* on_new_digit: the board after it, the digit of the RemoveDigit it queues
\* (NoDigit when it queues none) and whether it wrote to the cell
on_new_digit_unfiltered(cs, p, d) ==
  [cells |-> [cs EXCEPT ![p].mode = "Digit", ![p].digit = d],
   remove |-> cs[p].digit, touched |-> TRUE]

on_new_digit_no_remove(cs, p, d) ==
  IF cs[p].fixed
  THEN [cells |-> cs, remove |-> NoDigit, touched |-> FALSE]
  ELSE [cells |-> [cs EXCEPT ![p].mode = "Digit", ![p].digit = d],
        remove |-> NoDigit, touched |-> TRUE]

on_new_digit(cs, p, d) ==
  IF cs[p].fixed
  THEN [cells |-> cs, remove |-> NoDigit, touched |-> FALSE]
  ELSE [cells |-> [cs EXCEPT ![p].mode = "Digit", ![p].digit = d],
        remove |-> cs[p].digit, touched |-> TRUE]

flip(s, d) == IF d \in s THEN s \ {d} ELSE s \cup {d}

on_new_candidate_flip(cs, p, d, flag) ==
  IF cs[p].fixed
  THEN [cells |-> cs, remove |-> NoDigit, touched |-> FALSE]
  ELSE IF cs[p].mode = "Digit"
  THEN [cells |->
          IF flag
          THEN [cs EXCEPT ![p].digit = NoDigit, ![p].mode = "AutoCandidates",
                          ![p].auto_candidates = flip(@, d)]
          ELSE [cs EXCEPT ![p].digit = NoDigit, ![p].mode = "ManualCandidates",
                          ![p].manual_candidates = flip(@, d)],
        remove |-> cs[p].digit, touched |-> TRUE]
  ELSE IF cs[p].mode = "AutoCandidates"
  THEN [cells |-> [cs EXCEPT ![p].auto_candidates = flip(@, d)],
        remove |-> NoDigit, touched |-> TRUE]
  ELSE [cells |-> [cs EXCEPT ![p].manual_candidates = flip(@, d)],
        remove |-> NoDigit, touched |-> TRUE]

on_new_candidate_swapped(cs, p, d, flag) ==
  IF cs[p].fixed
  THEN [cells |-> cs, remove |-> NoDigit, touched |-> FALSE]
  ELSE IF cs[p].mode = "Digit"
  THEN [cells |->
          IF ~flag
          THEN [cs EXCEPT ![p].digit = NoDigit, ![p].mode = "AutoCandidates",
                          ![p].auto_candidates = insert(@, d)]
          ELSE [cs EXCEPT ![p].digit = NoDigit, ![p].mode = "ManualCandidates",
                          ![p].manual_candidates = insert(@, d)],
        remove |-> cs[p].digit, touched |-> TRUE]
  ELSE IF cs[p].mode = "AutoCandidates"
  THEN [cells |-> [cs EXCEPT ![p].auto_candidates = insert(@, d)],
        remove |-> NoDigit, touched |-> TRUE]
  ELSE [cells |-> [cs EXCEPT ![p].manual_candidates = insert(@, d)],
        remove |-> NoDigit, touched |-> TRUE]

on_new_candidate(cs, p, d, flag) ==
  IF cs[p].fixed
  THEN [cells |-> cs, remove |-> NoDigit, touched |-> FALSE]
  ELSE IF cs[p].mode = "Digit"
  THEN [cells |->
          IF flag
          THEN [cs EXCEPT ![p].digit = NoDigit, ![p].mode = "AutoCandidates",
                          ![p].auto_candidates = insert(@, d)]
          ELSE [cs EXCEPT ![p].digit = NoDigit, ![p].mode = "ManualCandidates",
                          ![p].manual_candidates = insert(@, d)],
        remove |-> cs[p].digit, touched |-> TRUE]
  ELSE IF cs[p].mode = "AutoCandidates"
  THEN [cells |-> [cs EXCEPT ![p].auto_candidates = insert(@, d)],
        remove |-> NoDigit, touched |-> TRUE]
  ELSE [cells |-> [cs EXCEPT ![p].manual_candidates = insert(@, d)],
        remove |-> NoDigit, touched |-> TRUE]

on_clean_cell_keep_digit(cs, p, flag) ==
  IF cs[p].fixed
  THEN [cells |-> cs, remove |-> NoDigit, touched |-> FALSE]
  ELSE IF cs[p].mode = "Digit"
  THEN [cells |->
          [cs EXCEPT ![p].mode = IF flag THEN "AutoCandidates"
                                         ELSE "ManualCandidates"],
        remove |-> cs[p].digit, touched |-> TRUE]
  ELSE IF cs[p].mode = "AutoCandidates"
  THEN [cells |-> cs, remove |-> NoDigit, touched |-> FALSE]
  ELSE [cells |-> [cs EXCEPT ![p].manual_candidates = {}],
        remove |-> NoDigit, touched |-> TRUE]

on_clean_cell_emptied(cs, p, flag) ==
  IF cs[p].fixed
  THEN [cells |-> cs, remove |-> NoDigit, touched |-> FALSE]
  ELSE IF cs[p].mode = "Digit"
  THEN [cells |->
          IF flag
          THEN [cs EXCEPT ![p].digit = NoDigit, ![p].mode = "AutoCandidates",
                          ![p].auto_candidates = {}]
          ELSE [cs EXCEPT ![p].digit = NoDigit, ![p].mode = "ManualCandidates",
                          ![p].manual_candidates = {}],
        remove |-> cs[p].digit, touched |-> TRUE]
  ELSE IF cs[p].mode = "AutoCandidates"
  THEN [cells |-> cs, remove |-> NoDigit, touched |-> FALSE]
  ELSE [cells |-> [cs EXCEPT ![p].manual_candidates = {}],
        remove |-> NoDigit, touched |-> TRUE]

on_clean_cell_clear_auto(cs, p, flag) ==
  IF cs[p].fixed
  THEN [cells |-> cs, remove |-> NoDigit, touched |-> FALSE]
  ELSE IF cs[p].mode = "Digit"
  THEN [cells |->
          [cs EXCEPT ![p].digit = NoDigit,
                     ![p].mode = IF flag THEN "AutoCandidates"
                                         ELSE "ManualCandidates"],
        remove |-> cs[p].digit, touched |-> TRUE]
  ELSE IF cs[p].mode = "AutoCandidates"
  THEN [cells |-> [cs EXCEPT ![p].auto_candidates = {}],
        remove |-> NoDigit, touched |-> TRUE]
  ELSE [cells |-> [cs EXCEPT ![p].manual_candidates = {}],
        remove |-> NoDigit, touched |-> TRUE]

on_clean_cell_manual_kept(cs, p, flag) ==
  IF cs[p].fixed
  THEN [cells |-> cs, remove |-> NoDigit, touched |-> FALSE]
  ELSE IF cs[p].mode = "Digit"
  THEN [cells |->
          [cs EXCEPT ![p].digit = NoDigit,
                     ![p].mode = IF flag THEN "AutoCandidates"
                                         ELSE "ManualCandidates"],
        remove |-> cs[p].digit, touched |-> TRUE]
  ELSE [cells |-> cs, remove |-> NoDigit, touched |-> FALSE]

on_clean_cell_reinsert(cs, p, flag) ==
  IF cs[p].fixed
  THEN [cells |-> cs, remove |-> NoDigit, touched |-> FALSE]
  ELSE IF cs[p].mode = "Digit"
  THEN [cells |->
          [q \in Pos |->
             IF q = p
             THEN [cs[p] EXCEPT !.digit = NoDigit,
                                !.mode = IF flag THEN "AutoCandidates"
                                                 ELSE "ManualCandidates"]
             ELSE IF SameUnit(p, q) /\ cs[q].mode = "AutoCandidates"
             THEN [cs[q] EXCEPT !.auto_candidates = @ \cup {cs[p].digit}]
             ELSE cs[q]],
        remove |-> cs[p].digit, touched |-> TRUE]
  ELSE IF cs[p].mode = "AutoCandidates"
  THEN [cells |-> cs, remove |-> NoDigit, touched |-> FALSE]
  ELSE [cells |-> [cs EXCEPT ![p].manual_candidates = {}],
        remove |-> NoDigit, touched |-> TRUE]

on_clean_cell_unfiltered(cs, p, flag) ==
  IF cs[p].mode = "Digit"
  THEN [cells |->
          [cs EXCEPT ![p].digit = NoDigit,
                     ![p].mode = IF flag THEN "AutoCandidates"
                                         ELSE "ManualCandidates"],
        remove |-> cs[p].digit, touched |-> TRUE]
  ELSE IF cs[p].mode = "AutoCandidates"
  THEN [cells |-> cs, remove |-> NoDigit, touched |-> FALSE]
  ELSE [cells |-> [cs EXCEPT ![p].manual_candidates = {}],
        remove |-> NoDigit, touched |-> TRUE]

on_clean_cell(cs, p, flag) ==
  IF cs[p].fixed
  THEN [cells |-> cs, remove |-> NoDigit, touched |-> FALSE]
  ELSE IF cs[p].mode = "Digit"
  THEN [cells |->
          [cs EXCEPT ![p].digit = NoDigit,
                     ![p].mode = IF flag THEN "AutoCandidates"
                                         ELSE "ManualCandidates"],
        remove |-> cs[p].digit, touched |-> TRUE]
  ELSE IF cs[p].mode = "AutoCandidates"
  THEN [cells |-> cs, remove |-> NoDigit, touched |-> FALSE]
  ELSE [cells |-> [cs EXCEPT ![p].manual_candidates = {}],
        remove |-> NoDigit, touched |-> TRUE]

\* the cells check_conflict collects in conflict_list
conflict_list(cs, p, d) ==
  { q \in Pos : /\ SameUnit(p, q)
                /\ cs[q].digit # NoDigit
                /\ cs[q].digit = d
                /\ q # p }

check_conflict_any_digit(cs, cc, p, d) ==
  IF cs[p].fixed THEN cc
  ELSE LET list == { q \in Pos : SameUnit(p, q) /\ cs[q].digit # NoDigit /\ q # p } IN
       [q \in Pos |->
          IF q \in list THEN cc[q] \cup {p}
          ELSE IF q = p /\ list # {} THEN cc[p] \cup {p} \cup list
          ELSE cc[q]]

\* check_conflict, observer of NewDigit(d) on p
check_conflict(cs, cc, p, d) ==
  IF cs[p].fixed THEN cc
  ELSE LET list == conflict_list(cs, p, d) IN
       [q \in Pos |->
          IF q \in list THEN cc[q] \cup {p}
          ELSE IF q = p /\ list # {} THEN cc[p] \cup {p} \cup list
          ELSE cc[q]]

\* remove_conflict, observer of RemoveDigit(old) on p
remove_conflict(cs, cc, p, old) ==
  [q \in Pos |->
     IF q = p THEN {}
     ELSE IF SameUnit(p, q) /\ cs[q].digit # NoDigit /\ cs[q].digit = old
     THEN cc[q] \ {p}
     ELSE cc[q]]

\* the RemoveDigit events an observer queues for the digit it replaced
queued(old) == IF old # NoDigit THEN << old >> ELSE << >>

remove_conflict_events_again(p, old) ==
  IF old > 1 THEN << old - 1 >> ELSE << >>

\* the events remove_conflict queues while it handles RemoveDigit(old) on p:
\* it takes no Commands parameter, so none
remove_conflict_events(p, old) == << >>

\* the RemoveDigit events handled on p, in order, when the queue q is drained
RECURSIVE cascade(_, _)
cascade(p, q) ==
  IF q = << >> THEN << >>
  ELSE << Head(q) >> \o cascade(p, Tail(q) \o remove_conflict_events(p, Head(q)))

\* remove_conflict applied for each event of evs in turn
RECURSIVE run_removes(_, _, _, _)
run_removes(cs, cc, p, evs) ==
  IF evs = << >> THEN cc
  ELSE run_removes(cs, remove_conflict(cs, cc, p, Head(evs)), p, Tail(evs))

\* the RemoveDigit command an observer queued, applied once the observers of
\* the triggering event have all run
apply_remove(cs, cc, p, old) ==
  run_removes(cs, cc, p, cascade(p, queued(old)))

\* ------------------------------------------------------------- history
CandidateModes == {"AutoCandidates", "ManualCandidates"}

\* the step recorded in last
Step(op, p, d, old) ==
  [op |-> op, p |-> p, d |-> d, old |-> old,
   removes |-> Len(cascade(p, queued(old))),
   rep |-> (last.op = op /\ last.p = p /\ last.d = d)]

NoScen == [n |-> 0, p |-> 0, q |-> 0, x |-> 0, d |-> NoDigit,
           free |-> FALSE, cand |-> FALSE, cc |-> << >>]

\* the conflict sets that are not empty
Recorded ==
  [q \in { r \in Pos : conflict_count[r] # {} } |-> conflict_count[q]]

\* the conflict set of q in the record cc
Before(cc, q) == IF q \in DOMAIN cc THEN cc[q] ELSE {}

\* PlaceDigit(p,d) opens a scenario: p is not fixed, holds no digit or is in
\* a candidate mode, and no peer of p holds d
Opens(p, d) ==
  /\ ~cells[p].fixed
  /\ cells[p].digit = NoDigit \/ cells[p].mode \in CandidateModes
  /\ \A r \in Pos : IsPeer(p, r) => cells[r].digit # d

\* PlaceDigit(q,d) is the second placement of scenario A: q is a peer of the
\* first cell, not fixed, without a digit, and no other peer of q holds d
Follows(q, d) ==
  /\ scen.n = 1 /\ scen.free /\ scen.d = d
  /\ IsPeer(scen.p, q)
  /\ ~cells[q].fixed
  /\ cells[q].digit = NoDigit
  /\ \A r \in Pos : (IsPeer(q, r) /\ r # scen.p) => cells[r].digit # d

\* scen after the input event op on p with digit d:
\*   n = 1  PlaceDigit(p,d) has opened a scenario (cc: conflict sets before it)
\*   n = 2  PlaceDigit(q,d) on a peer q has followed
\*   n = 3  ClearCell on x, one of p and q, has followed the two placements
\*   n = 4  ClearCell(p) has followed the opening PlaceDigit(p,d)
Scenario(op, p, d) ==
  IF op = "place" /\ d \in Digits /\ Follows(p, d)
  THEN [scen EXCEPT !.n = 2, !.q = p]
  ELSE IF op = "place" /\ d \in Digits /\ Opens(p, d)
  THEN [n |-> 1, p |-> p, q |-> p, x |-> p, d |-> d,
        free |-> (cells[p].digit = NoDigit),
        cand |-> (cells[p].mode \in CandidateModes),
        cc |-> Recorded]
  ELSE IF op = "clear" /\ scen.n = 2 /\ p \in {scen.p, scen.q}
  THEN [scen EXCEPT !.n = 3, !.x = p]
  ELSE IF op = "clear" /\ scen.n = 1 /\ p = scen.p
  THEN [scen EXCEPT !.n = 4]
  ELSE NoScen

\* --------------------------------------------------------------- actions
\* the NewDigit(d) event on the selected cell with its three observers
\* on_new_digit, check_conflict and check_solver, and the RemoveDigit that
\* on_new_digit queues, handled after all three have run. check_solver reads
\* the cells before on_new_digit has written them when it runs first, and
\* after otherwise; check_conflict gives the same result in either place.
NewDigit(d, first) ==
  /\ ~crashed
  /\ steps < MaxSteps
  /\ steps' = steps + 1
  /\ scen' = Scenario("place", selected_cell, d)
  /\ UNCHANGED << auto_mode, selected_cell >>
  /\ IF digit_new_panics(d)
     THEN /\ crashed' = TRUE
          /\ last' = Step("place", selected_cell, d, NoDigit)
          /\ UNCHANGED << cells, conflict_count, changed, solver >>
     ELSE LET p == selected_cell
              r == on_new_digit(cells, p, d)
              cc1 == check_conflict(r.cells, conflict_count, p, d)
          IN /\ cells' = check_solver_cells(r.cells, auto_mode)
             /\ solver' = check_solver(IF first THEN cells ELSE r.cells,
                                       auto_mode)
             /\ conflict_count' = apply_remove(r.cells, cc1, p, r.remove)
             /\ changed' = IF r.touched THEN changed \cup {p} ELSE changed
             /\ last' = Step("place", p, d, r.remove)
             /\ UNCHANGED crashed

\* a digit key without Alt, or a click on a number in the Normal tab, with
\* the observers of NewDigit run in the order of their registration
PlaceDigit(d) == NewDigit(d, FALSE)

\* the same input with the observers of NewDigit run in the order the build
\* gives them: Bevy keeps the observers of an event in a hash map keyed by
\* observer entity and runs them in the map's iteration order, which is
\* fixed by the entity ids and need not be the order of registration
PlaceDigitAnyOrder(d) == \E first \in BOOLEAN : NewDigit(d, first)

\* a digit key with Alt, or a click on a number in the Candidate tab
ToggleCandidate(d) ==
  /\ ~crashed
  /\ steps < MaxSteps
  /\ steps' = steps + 1
  /\ scen' = Scenario("toggle", selected_cell, d)
  /\ UNCHANGED << auto_mode, selected_cell, solver >>
  /\ IF digit_new_panics(d)
     THEN /\ crashed' = TRUE
          /\ last' = Step("toggle", selected_cell, d, NoDigit)
          /\ UNCHANGED << cells, conflict_count, changed >>
     ELSE LET p == selected_cell
              r == on_new_candidate(cells, p, d, auto_mode)
          IN /\ cells' = r.cells
             /\ conflict_count' = apply_remove(r.cells, conflict_count, p, r.remove)
             /\ changed' = IF r.touched THEN changed \cup {p} ELSE changed
             /\ last' = Step("toggle", p, d, r.remove)
             /\ UNCHANGED crashed

\* the Delete key, or a click on the eraser
ClearCell ==
  /\ ~crashed
  /\ steps < MaxSteps
  /\ steps' = steps + 1
  /\ scen' = Scenario("clear", selected_cell, NoDigit)
  /\ UNCHANGED << auto_mode, selected_cell, solver, crashed >>
  /\ LET p == selected_cell
         r == on_clean_cell(cells, p, auto_mode)
     IN /\ cells' = r.cells
        /\ conflict_count' = apply_remove(r.cells, conflict_count, p, r.remove)
        /\ changed' = IF r.touched THEN changed \cup {p} ELSE changed
        /\ last' = Step("clear", p, NoDigit, r.remove)

\* the digit kick_candidates eliminates in this run (NoDigit: none)
kicker_digit ==
  IF selected_cell \in changed
  THEN current(cells[selected_cell], auto_mode).digit
  ELSE NoDigit

kick_row_only(cs, p, d, flag) ==
  [q \in Pos |->
     IF q # p /\ row(p) = row(q) /\ current(cs[q], flag).digit = NoDigit
     THEN set(cs[q], current(cs[q], flag).cands \ {d}, flag)
     ELSE cs[q]]

kick_every_cell(cs, p, d, flag) ==
  [q \in Pos |->
     IF q # p /\ current(cs[q], flag).digit = NoDigit
     THEN set(cs[q], current(cs[q], flag).cands \ {d}, flag)
     ELSE cs[q]]

kick_both_sets(cs, p, d, flag) ==
  [q \in Pos |->
     IF q # p /\ SameUnit(p, q) /\ current(cs[q], flag).digit = NoDigit
     THEN [cs[q] EXCEPT !.auto_candidates = @ \ {d},
                        !.manual_candidates = @ \ {d}]
     ELSE cs[q]]

\* the board kick_candidates leaves when the changed selected cell p shows d
kick(cs, p, d, flag) ==
  [q \in Pos |->
     IF q # p /\ SameUnit(p, q) /\ current(cs[q], flag).digit = NoDigit
     THEN set(cs[q], current(cs[q], flag).cands \ {d}, flag)
     ELSE cs[q]]

\* one run of the Update system kick_candidates; a run that finds no changed
\* cell leaves every variable as it is
kick_candidates ==
  /\ ~crashed
  /\ changed # {}
  /\ cells' = IF kicker_digit # NoDigit
              THEN kick(cells, selected_cell, kicker_digit, auto_mode)
              ELSE cells
  /\ changed' = {}
  /\ last' = Step("kick", selected_cell, kicker_digit, NoDigit)
  /\ UNCHANGED << conflict_count, auto_mode, selected_cell, solver, crashed,
                  steps, scen >>

\* SelectedCell moves to another cell
MoveSelect(q) ==
  /\ ~crashed
  /\ q # selected_cell
  /\ selected_cell' = q
  /\ UNCHANGED << cells, conflict_count, auto_mode, changed, solver, crashed,
                  steps, last, scen >>

on_click_auto_candidate_migrate ==
  /\ ~crashed
  /\ steps < MaxSteps
  /\ steps' = steps + 1
  /\ auto_mode' = ~auto_mode
  /\ cells' = [p \in Pos |->
                 IF cells[p].mode \in {"AutoCandidates", "ManualCandidates"}
                 THEN [cells[p] EXCEPT !.mode = IF auto_mode' THEN "AutoCandidates"
                                                             ELSE "ManualCandidates"]
                 ELSE cells[p]]
  /\ last' = Step("auto", selected_cell, NoDigit, NoDigit)
  /\ UNCHANGED << conflict_count, selected_cell, changed, solver, crashed, scen >>

\* a click on the "Auto Candidate Mode" check box
on_click_auto_candidate ==
  /\ ~crashed
  /\ steps < MaxSteps
  /\ steps' = steps + 1
  /\ auto_mode' = ~auto_mode
  /\ last' = Step("auto", selected_cell, NoDigit, NoDigit)
  /\ UNCHANGED << cells, conflict_count, selected_cell, changed, solver,
                  crashed, scen >>

Init ==
  /\ cells = [p \in Pos |-> from_cell_state(p)]
  /\ conflict_count = [p \in Pos |-> {}]
  /\ auto_mode = FALSE
  /\ selected_cell = 0
  /\ changed = Pos
  /\ solver = check_solver([p \in Pos |-> from_cell_state(p)], FALSE)
  /\ crashed = FALSE
  /\ steps = 0
  /\ last = [op |-> "init", p |-> 0, d |-> NoDigit, old |-> NoDigit,
             removes |-> 0, rep |-> FALSE]
  /\ scen = NoScen

Next ==
  \/ \E d \in InputDigits : PlaceDigit(d)
  \/ \E d \in InputDigits : ToggleCandidate(d)
  \/ ClearCell
  \/ kick_candidates
  \/ \E q \in ActiveCells : MoveSelect(q)
  \/ on_click_auto_candidate

Spec == Init /\ [][Next]_vars

\* Next with the observers of NewDigit in either order. The order decides
\* the value of solver only: no action reads solver, so every other variable
\* takes the same values under Spec and SpecAnyOrder.
NextAnyOrder ==
  \/ \E d \in InputDigits : PlaceDigitAnyOrder(d)
  \/ \E d \in InputDigits : ToggleCandidate(d)
  \/ ClearCell
  \/ kick_candidates
  \/ \E q \in ActiveCells : MoveSelect(q)
  \/ on_click_auto_candidate

SpecAnyOrder == Init /\ [][NextAnyOrder]_vars

\* ================================================================ claims
\* the step just taken handled an input event / was a run of kick_candidates
IsPlaceStep == steps' = steps + 1 /\ last'.op = "place"
IsToggleStep == steps' = steps + 1 /\ last'.op = "toggle"
IsKickStep == changed # {} /\ changed' = {}

\* C1: no step (input event on any cell, under either flag value, or a run of
\* kick_candidates) changes the mode, digit or candidate sets of a fixed cell.
C1_FixedCellsImmutable ==
  [][\A p \in Pos : cells[p].fixed => cells'[p] = cells[p]]_vars

\* a digit other than its own has been placed on a fixed cell with the flag set
C1_Witness ==
  /\ last.op = "place"
  /\ last.d \in Digits
  /\ cells[last.p].fixed
  /\ cells[last.p].digit # last.d
  /\ auto_mode

\* C2: conflict symmetry after every input event: q is in conflicts(p) iff p
\* is in conflicts(q).
C2_ConflictSymmetry ==
  \A p, q \in Pos : (q \in conflict_count[p]) <=> (p \in conflict_count[q])

\* C3: conflicts(p) is exactly the set of peers holding the same placed digit
\* as p.
C3_ConflictsExact ==
  \A p \in Pos :
    conflict_count[p] =
      { q \in Peers(p) : cells[p].digit # NoDigit /\ cells[q].digit = cells[p].digit }

\* C4: after PlaceDigit(p,d), PlaceDigit(q,d) on peers that held no digit, no
\* other peer of either holding d, the two cells are in each other's conflict
\* set, and a ClearCell on either of them leaves the other one's conflict set
\* empty.
C4_ScenarioA ==
  /\ scen.n = 2 =>
       /\ scen.q \in conflict_count[scen.p]
       /\ scen.p \in conflict_count[scen.q]
  /\ scen.n = 3 =>
       /\ scen.x = scen.p => conflict_count[scen.q] = {}
       /\ scen.x = scen.q => conflict_count[scen.p] = {}

\* C5: removal round-trip: PlaceDigit(p,d) on a non-fixed cell in a candidate
\* mode, no peer holding d, then ClearCell(p), ends with conflicts(p) empty
\* and every peer's conflict set as it was before the placement.
C5_RemovalRoundTrip ==
  (scen.n = 4 /\ scen.cand) =>
    /\ conflict_count[scen.p] = {}
    /\ \A q \in Peers(scen.p) : conflict_count[q] = Before(scen.cc, q)

\* the round trip happened next to a peer that has a conflict of its own
C5_Witness ==
  /\ scen.n = 4
  /\ scen.cand
  /\ \E q \in Peers(scen.p) : Before(scen.cc, q) # {}

\* C6: a PlaceDigit or ToggleCandidate with a digit outside 1..9 is a no-op
\* and does not crash the engine.
C6_InvalidDigitRejected ==
  [][((IsPlaceStep \/ IsToggleStep) /\ last'.d \notin Digits) =>
       /\ ~crashed'
       /\ UNCHANGED << cells, conflict_count, solver >>]_vars

C9_KickScope ==
  [][(IsPlaceStep \/ IsKickStep) =>
       \A q \in Pos :
         /\ q \notin Peers(selected_cell) =>
              /\ cells'[q].auto_candidates = cells[q].auto_candidates
              /\ cells'[q].manual_candidates = cells[q].manual_candidates
         /\ (q \in Peers(selected_cell) /\ cells[q].mode = "Digit") =>
              cells'[q] = cells[q]]_vars

\* a kick of d has run while a non-peer in AutoCandidates mode holds d and a
\* non-fixed peer is in Digit mode
C9_Witness ==
  /\ last.op = "kick"
  /\ last.d # NoDigit
  /\ \E q \in Pos \ (Peers(last.p) \cup {last.p}) :
        /\ cells[q].mode = "AutoCandidates"
        /\ last.d \in cells[q].auto_candidates
  /\ \E q \in Peers(last.p) : cells[q].mode = "Digit" /\ ~cells[q].fixed

\* the candidate set a cell in a candidate mode shows
CurrentSet(c) ==
  IF c.mode = "AutoCandidates" THEN c.auto_candidates ELSE c.manual_candidates

\* C10: ToggleCandidate(p,d) on a non-fixed cell in a candidate mode marks d:
\* d is in the set afterwards, an event that finds d present changes nothing,
\* and handling the same event once more gives the same board.
C10_ToggleIdempotent ==
  [][(/\ IsToggleStep
      /\ last'.d \in Digits
      /\ ~cells[selected_cell].fixed
      /\ cells[selected_cell].mode \in CandidateModes) =>
       LET p == selected_cell
           d == last'.d
       IN /\ d \in CurrentSet(cells'[p])
          /\ d \in CurrentSet(cells[p]) => cells' = cells
          /\ on_new_candidate(cells', p, d, auto_mode).cells = cells']_vars

\* ToggleCandidate(p,d) has been handled twice in a row on a cell that stayed
\* in a candidate mode
C10_Witness ==
  /\ last.op = "toggle"
  /\ last.rep
  /\ last.old = NoDigit
  /\ last.d \in Digits
  /\ ~cells[last.p].fixed
  /\ cells[last.p].mode \in CandidateModes

\* the step just taken handled a ClearCell / any input event
IsClearStep == steps' = steps + 1 /\ last'.op = "clear"
IsInputStep == IsPlaceStep \/ IsToggleStep \/ IsClearStep

\* C11: in every reachable state every cell has a digit if and only if its
\* mode is Digit (I3).
C11_DigitIffDigitMode ==
  \A p \in Pos : (cells[p].digit # NoDigit) <=> (cells[p].mode = "Digit")

\* a ToggleCandidate or ClearCell has taken a non-fixed cell out of Digit mode
C11_Witness ==
  /\ last.op \in {"toggle", "clear"}
  /\ last.old # NoDigit
  /\ cells[last.p].mode \in CandidateModes
  /\ \E q \in Pos : ~cells[q].fixed /\ cells[q].mode = "Digit"

\* a placed digit is waiting for kick_candidates: a non-fixed cell in Digit
\* mode has changed since the system last ran
KickPending ==
  \E p \in changed : ~cells[p].fixed /\ cells[p].mode = "Digit"

\* C13: run-to-completion: no input event is handled between a PlaceDigit
\* and its kick, so an input event the engine handles never finds a placed
\* digit still waiting for kick_candidates.
C13_RunToCompletion ==
  [][(IsInputStep /\ ~crashed') => ~KickPending]_vars

\* C14: the RemoveDigit(old) cleanup is completed before the conflict check
\* for the new digit: the conflict sets a PlaceDigit(p,d) leaves are those of
\* remove_conflict followed by check_conflict, so the cleanup erases nothing
\* recorded for d.
C14_RemovalFirst ==
  [][(/\ IsPlaceStep
      /\ last'.d \in Digits
      /\ ~cells[selected_cell].fixed) =>
       LET p == selected_cell
           cleaned == apply_remove(cells, conflict_count, p, cells[p].digit)
       IN conflict_count' = check_conflict(cells', cleaned, p, last'.d)]_vars

\* C15: placement postcondition: when PlaceDigit(p,d) on a non-fixed cell has
\* completed, every peer q holding d is in conflicts(p) and has p in
\* conflicts(q), whatever p held before.
C15_PlacementPostcondition ==
  (/\ last.op = "place"
   /\ last.d \in Digits
   /\ ~cells[last.p].fixed)
  => \A q \in Peers(last.p) :
       cells[q].digit = last.d =>
         /\ q \in conflict_count[last.p]
         /\ last.p \in conflict_count[q]

\* C16: no cell is a member of its own conflict set.
C16_NoSelfConflict ==
  \A p \in Pos : p \notin conflict_count[p]

\* C17: PlaceDigit(p,d), d in 1..9, on a non-fixed cell ends with mode Digit
\* and digit d; RemoveDigit(old) is emitted exactly when the cell held old,
\* and none is emitted from a candidate mode.
C17_PlaceDigitTransition ==
  [][(/\ IsPlaceStep
      /\ last'.d \in Digits
      /\ ~cells[selected_cell].fixed) =>
       LET p == selected_cell IN
       /\ cells'[p].mode = "Digit"
       /\ cells'[p].digit = last'.d
       /\ last'.old = cells[p].digit
       /\ cells[p].mode \in CandidateModes => last'.old = NoDigit]_vars

\* a PlaceDigit has replaced a different digit on a non-fixed cell
C17_Witness ==
  /\ last.op = "place"
  /\ last.old \notin {NoDigit, last.d}
  /\ ~cells[last.p].fixed
  /\ cells[last.p].digit = last.d

\* C18: ToggleCandidate(d) on a non-fixed cell in Digit(old) mode emits
\* RemoveDigit(old), clears the digit, enters AutoCandidates if the flag is
\* set and ManualCandidates otherwise, inserts d into the set of the mode
\* entered and leaves the other set unchanged.
C18_ToggleFromDigit ==
  [][(/\ IsToggleStep
      /\ last'.d \in Digits
      /\ ~cells[selected_cell].fixed
      /\ cells[selected_cell].mode = "Digit") =>
       LET p == selected_cell
           d == last'.d
       IN /\ last'.old = cells[p].digit
          /\ last'.old # NoDigit
          /\ cells'[p].digit = NoDigit
          /\ auto_mode =>
               /\ cells'[p].mode = "AutoCandidates"
               /\ cells'[p].auto_candidates = cells[p].auto_candidates \cup {d}
               /\ cells'[p].manual_candidates = cells[p].manual_candidates
          /\ ~auto_mode =>
               /\ cells'[p].mode = "ManualCandidates"
               /\ cells'[p].manual_candidates = cells[p].manual_candidates \cup {d}
               /\ cells'[p].auto_candidates = cells[p].auto_candidates]_vars

\* a ToggleCandidate has taken a cell from Digit mode to AutoCandidates
C18_Witness ==
  /\ last.op = "toggle"
  /\ last.old # NoDigit
  /\ cells[last.p].mode = "AutoCandidates"
  /\ last.d \in cells[last.p].auto_candidates

\* C19: ClearCell on a non-fixed cell in Digit(old) mode emits
\* RemoveDigit(old), clears the digit, enters AutoCandidates if the flag is
\* set and ManualCandidates otherwise, and the candidate set of the mode
\* entered is empty afterwards.
C19_ClearDigitEmptiesSet ==
  [][(/\ IsClearStep
      /\ ~cells[selected_cell].fixed
      /\ cells[selected_cell].mode = "Digit") =>
       LET p == selected_cell IN
       /\ last'.old = cells[p].digit
       /\ last'.old # NoDigit
       /\ cells'[p].digit = NoDigit
       /\ cells'[p].mode = IF auto_mode THEN "AutoCandidates" ELSE "ManualCandidates"
       /\ CurrentSet(cells'[p]) = {}]_vars

\* C19 as amended: ClearCell on a non-fixed cell in Digit(old) mode emits
\* RemoveDigit(old), clears the digit, enters AutoCandidates if the flag is
\* set and ManualCandidates otherwise, and leaves both candidate sets as they
\* were.
C19_ClearDigitKeepsSets ==
  [][(/\ IsClearStep
      /\ ~cells[selected_cell].fixed
      /\ cells[selected_cell].mode = "Digit") =>
       LET p == selected_cell IN
       /\ last'.old = cells[p].digit
       /\ last'.old # NoDigit
       /\ cells'[p].digit = NoDigit
       /\ cells'[p].mode = IF auto_mode THEN "AutoCandidates" ELSE "ManualCandidates"
       /\ cells'[p].auto_candidates = cells[p].auto_candidates
       /\ cells'[p].manual_candidates = cells[p].manual_candidates]_vars

\* a ClearCell has taken a cell out of Digit mode into a mode whose set is
\* not empty
C19_Witness ==
  /\ last.op = "clear"
  /\ last.old # NoDigit
  /\ cells[last.p].mode \in CandidateModes
  /\ CurrentSet(cells[last.p]) # {}

\* C20: ClearCell on a cell in AutoCandidates mode is a no-op: no cell and no
\* conflict set changes and no RemoveDigit is emitted.
C20_ClearAutoNoOp ==
  [][(IsClearStep /\ cells[selected_cell].mode = "AutoCandidates") =>
       /\ cells' = cells
       /\ conflict_count' = conflict_count
       /\ last'.old = NoDigit]_vars

\* a ClearCell has hit an AutoCandidates cell that shows candidates while a
\* conflict is recorded on the board
C20_Witness ==
  /\ last.op = "clear"
  /\ last.old = NoDigit
  /\ ~cells[last.p].fixed
  /\ cells[last.p].mode = "AutoCandidates"
  /\ cells[last.p].auto_candidates # {}
  /\ \E q \in Pos : conflict_count[q] # {}

\* C21: ClearCell on a non-fixed cell in ManualCandidates mode empties
\* manual_candidates and changes nothing else; no RemoveDigit is emitted.
C21_ClearManual ==
  [][(/\ IsClearStep
      /\ ~cells[selected_cell].fixed
      /\ cells[selected_cell].mode = "ManualCandidates") =>
       /\ cells' = [cells EXCEPT ![selected_cell].manual_candidates = {}]
       /\ conflict_count' = conflict_count
       /\ last'.old = NoDigit]_vars

\* a ClearCell has hit a ManualCandidates cell whose auto_candidates is not
\* empty
C21_Witness ==
  /\ last.op = "clear"
  /\ last.old = NoDigit
  /\ ~last.rep
  /\ cells[last.p].mode = "ManualCandidates"
  /\ cells[last.p].manual_candidates = {}
  /\ cells[last.p].auto_candidates # {}

\* the step just taken was a click on the auto-candidate check box
IsAutoStep == steps' = steps + 1 /\ last'.op = "auto"

\* C22: toggling the global auto-candidate flag changes no cell and no
\* conflict set; a cell in a candidate mode stays in that mode.
C22_FlagToggleKeepsCells ==
  [][IsAutoStep =>
       /\ auto_mode' = ~auto_mode
       /\ cells' = cells
       /\ conflict_count' = conflict_count]_vars

\* the flag has been set while one cell is in ManualCandidates mode and
\* another in AutoCandidates mode
C22_Witness ==
  /\ last.op = "auto"
  /\ auto_mode
  /\ \E p \in Pos : cells[p].mode = "ManualCandidates"
  /\ \E p \in Pos : cells[p].mode = "AutoCandidates"

C24_ForwardOnly ==
  [][\/ cells' = cells
     \/ \A q \in Pos :
          \/ cells'[q] = cells[q]
          \/ IsInputStep /\ q = selected_cell
          \/ cells'[q].auto_candidates \subseteq cells[q].auto_candidates]_vars

\* a digit that had been kicked from an AutoCandidates peer has been removed
\* from its cell and the peer still lacks it
C24_Witness ==
  /\ last.op \in {"clear", "toggle"}
  /\ last.old # NoDigit
  /\ \E q \in Peers(last.p) :
        /\ cells[q].mode = "AutoCandidates"
        /\ last.old \in from_cell_state(q).auto_candidates
        /\ last.old \notin cells[q].auto_candidates

\* C25: nesting is bounded: an input event produces at most one RemoveDigit
\* event, exactly when it replaced a digit, and handling RemoveDigit produces
\* no further event.
C25_NestingBounded ==
  /\ last.removes <= 1
  /\ last.removes = 1 <=> last.old # NoDigit
  /\ last.old # NoDigit => remove_conflict_events(last.p, last.old) = << >>

\* an input event has replaced a digit greater than 1 and its RemoveDigit has
\* been handled
C25_Witness ==
  /\ last.op \in {"place", "toggle", "clear"}
  /\ last.old # NoDigit
  /\ last.old > 1
  /\ last.removes = 1

\* C26: solver synchronisation works on the board as the PlaceDigit leaves
\* it: after PlaceDigit(p,d) the stored snapshot holds the effective value of
\* every cell, and on a cell that is not fixed its entry at p is Digit(d).
C26_SnapshotAfterTransition ==
  (last.op = "place" /\ ~crashed) =>
     /\ solver = check_solver(cells, auto_mode)
     /\ ~cells[last.p].fixed => solver[last.p] = DigitState(last.d)

\* C27: solver synchronisation does not mutate the board: a PlaceDigit(p,d)
\* leaves every cell but p as it was, leaves the fixed flag and both candidate
\* sets of p as they were, leaves the conflict sets as check_conflict and
\* remove_conflict make them, changes no cell and no conflict set at all when
\* p is fixed, and replaces the stored snapshot.
C27_SolverSyncKeepsBoard ==
  [][(IsPlaceStep /\ ~crashed') =>
       LET p == selected_cell IN
       /\ \A q \in Pos : q = p \/ cells'[q] = cells[q]
       /\ cells'[p].fixed = cells[p].fixed
       /\ cells'[p].auto_candidates = cells[p].auto_candidates
       /\ cells'[p].manual_candidates = cells[p].manual_candidates
       /\ \E cc1 \in { check_conflict(cells', conflict_count, p, last'.d) } :
            conflict_count' = apply_remove(cells', cc1, p, last'.old)
       /\ cells[p].fixed => (cells' = cells /\ conflict_count' = conflict_count)
       /\ \/ solver' = check_solver(cells', auto_mode)
          \/ solver' = check_solver(cells, auto_mode)]_vars

\* a digit has been placed in an open cell that keeps its auto candidates,
\* and the stored snapshot has been rebuilt
C27_Witness ==
  /\ last.op = "place"
  /\ last.d \in Digits
  /\ ~cells[last.p].fixed
  /\ cells[last.p].auto_candidates # {}
  /\ solver[last.p] = DigitState(last.d)

\* position p has exactly 20 peers, is not its own peer, and is a peer of
\* each of its peers
TwentyPeers ==
  [p \in Pos |-> /\ Cardinality(Peers(p)) = 20
                 /\ p \notin Peers(p)
                 /\ \A q \in Peers(p) : p \in Peers(q)]

\* C29: with row = idx / 9, col = idx % 9 and block = (row / 3) * 3 + col / 3
\* every position has exactly 20 peers, is never its own peer, and the peer
\* relation is symmetric.
C29_TwentyPeers == \A p \in DOMAIN cells : TwentyPeers[p]

\* kick_candidates has run for a placed digit and each of the 20 peers of
\* its cell is without that digit as an auto candidate
C29_Witness ==
  /\ last.op = "kick"
  /\ last.d # NoDigit
  /\ Cardinality({ q \in Pos : /\ q # last.p
                               /\ SameUnit(last.p, q)
                               /\ last.d \notin cells[q].auto_candidates }) = 20

\* C30: the fixed flag is the one set at session start, exactly for the
\* givens of the puzzle, and every fixed cell is in Digit mode holding its
\* given digit.
C30_FixedAreGivens ==
  \A p \in Pos :
    /\ cells[p].fixed <=> Puzzle[p + 1] # 0
    /\ cells[p].fixed =>
         /\ cells[p].mode = "Digit"
         /\ cells[p].digit = Puzzle[p + 1]

\* the Delete key has been pressed on a given, which still holds its digit
C30_Witness ==
  /\ last.op = "clear"
  /\ cells[last.p].fixed
  /\ cells[last.p].digit = Puzzle[last.p + 1]
====
